---- MODULE Spec2Model ----
(***************************************************************************)
(* Folder structure capture (folder_structure_capture.py) and              *)
(* reconstruction (folder_structure_reconstruct.py).                       *)
(*                                                                         *)
(* The file system is a function from paths (sequences of names) to        *)
(* entries; a structural record is the nested dictionary the Capturer      *)
(* writes; Python dictionaries are sequences of <<key, value>> pairs where *)
(* their iteration order matters ("directories") and functions where it    *)
(* does not (file_info, stats, file_map).                                  *)
(***************************************************************************)
EXTENDS Integers, Sequences, FiniteSets, TLC

\* ------------------------------------------------------------------ bounds
\* The directory trees of a behaviour (the captured directory and the source
\* pool) hold together at most MaxEntries files and directories; file contents
\* are the numbers 0..MaxContent; at most MaxRuns calls are made through the
\* command line in one behaviour.
MaxEntries == 4
MaxContent == 1
MaxRuns == 2

\* At most MaxFaults entries of a captured directory cannot be read; a
\* directory with unreadable entries holds at most MaxEntries - 1 entries.
MaxFaults == 1

\* The entry names of the model, in the order sorted() gives them.
NameOrder == <<"a", "b">>
Names == {NameOrder[i] : i \in DOMAIN NameOrder}
Contents == 0 .. MaxContent

\* ------------------------------------------------------------- file system
\* Python's None (a failed hash, a failed lookup); digests are >= 0.
None == -1

\* The digests hashlib.md5 can produce: finitely many, so that two different
\* contents can share a digest.
NumDigests == 2

\* hashlib.md5(content).hexdigest()
md5(c) == c % NumDigests

\* os.stat(...).st_size of a file holding content c
st_size(c) == c

DirEntry == [kind |-> "dir"]
FileEntry(c) == [kind |-> "file", content |-> c]

\* An entry that is neither a file nor a directory: a symbolic link to path
\* target, or a special file of kind k ("device", "socket")
LinkEntry(target) == [kind |-> "link", to |-> target]
SpecialEntry(k) == [kind |-> k]

\* The path os.stat reads for p: a symbolic link is followed to its target
resolve(f, p) == IF p \in DOMAIN f /\ f[p].kind = "link" THEN f[p].to ELSE p

\* Path.exists / Path.is_file / Path.is_dir (the last two follow symbolic
\* links)
exists(f, p) == p \in DOMAIN f
is_file(f, p) == resolve(f, p) \in DOMAIN f /\ f[resolve(f, p)].kind = "file"
is_dir(f, p) == resolve(f, p) \in DOMAIN f /\ f[resolve(f, p)].kind = "dir"

\* Path.name, Path.parent
basename(p) == p[Len(p)]
parent(p) == SubSeq(p, 1, Len(p) - 1)

\* p is q or lies below q
IsUnder(p, q) == Len(p) >= Len(q) /\ SubSeq(p, 1, Len(q)) = q

\* sorted(path.iterdir()): the names of the entries of directory p, sorted
iterdir(f, p) == SelectSeq(NameOrder, LAMBDA n : Append(p, n) \in DOMAIN f)

\* f with entry e written at path p
Put(f, p, e) == [q \in DOMAIN f \cup {p} |-> IF q = p THEN e ELSE f[q]]

\* f without path p
Remove(f, p) == [q \in DOMAIN f \ {p} |-> f[q]]

\* ------------------------------------------------------- generated trees
\* A nested description of a directory: files is a sequence of
\* <<name, content>>, dirs a sequence of <<name, subtree>>, both in name
\* order, no name used twice in one directory.
\* The directories with exactly n entries whose entry names are taken from the
\* sequence of names ns, in that order.
RECURSIVE TreesOver(_, _)
TreesOver(ns, n) ==
    IF ns = <<>>
    THEN IF n = 0 THEN {[files |-> <<>>, dirs |-> <<>>]} ELSE {}
    ELSE LET nm == Head(ns)
             skip == TreesOver(Tail(ns), n)
             asFile == IF n = 0 THEN {}
                       ELSE {[files |-> <<(<<nm, c>>)>> \o r.files, dirs |-> r.dirs] :
                                c \in Contents, r \in TreesOver(Tail(ns), n - 1)}
             asDir == UNION {UNION {
                         {[files |-> r.files, dirs |-> <<(<<nm, sub>>)>> \o r.dirs] :
                             r \in TreesOver(Tail(ns), n - 1 - k)} :
                         sub \in TreesOver(NameOrder, k)} : k \in 0 .. (n - 1)}
         IN skip \cup asFile \cup asDir

\* The directories with at most n entries
TreesUpTo(n) == UNION {TreesOver(NameOrder, k) : k \in 0 .. n}

\* The content recorded for name n in a generated file list
ContentOf(files, n) == files[CHOOSE i \in DOMAIN files : files[i][1] = n][2]

\* The file system entries of generated tree t placed at directory path p
\* (p itself included).
RECURSIVE Materialize(_, _)
Materialize(p, t) ==
    LET RECURSIVE Below(_)
        Below(ds) == IF ds = <<>> THEN <<>>
                     ELSE Materialize(Append(p, Head(ds)[1]), Head(ds)[2])
                          @@ Below(Tail(ds))
        fileNames == {t.files[i][1] : i \in DOMAIN t.files}
    IN (p :> DirEntry)
       @@ [q \in {Append(p, n) : n \in fileNames} |->
              FileEntry(ContentOf(t.files, basename(q)))]
       @@ Below(t.dirs)

\* The ways in which entry e can fail to be read
FaultsOf(e) ==
    {[at |-> a, err |-> x] :
        a \in (IF e.kind = "file" THEN {"stat", "open"} ELSE {"stat", "list"}),
        x \in {"PermissionError", "OSError"}}

\* The file systems that differ from f by at most k unreadable entries below
\* its top-level directories
RECURSIVE WithFaults(_, _)
WithFaults(f, k) ==
    IF k = 0 THEN {f}
    ELSE LET fewer == WithFaults(f, k - 1)
         IN fewer \cup
            UNION {UNION {{[g EXCEPT ![p] = g[p] @@ ("fault" :> flt)] :
                              flt \in FaultsOf(g[p])} :
                          p \in {q \in DOMAIN g : Len(q) > 1 /\ "fault" \notin DOMAIN g[q]}} :
                   g \in fewer}

\* ---------------------------------------------------------------- Capturer
\* An entry the operating system refuses to serve carries a "fault": the call
\* that fails on it ("stat" for is_file/is_dir/stat, "open" for reading a
\* file's content, "list" for iterdir of a directory) and the class of the
\* error raised ("OSError" stands for an OSError that is no PermissionError).
\* The error that operation at raises on path p, "" when it succeeds.
FaultAt(f, p, at) ==
    IF p \in DOMAIN f /\ "fault" \in DOMAIN f[p] /\ f[p].fault.at = at
    THEN f[p].fault.err
    ELSE ""

\* The error classes the except clause around iterdir catches
ListErrorsCaught == {"PermissionError"}

\* The except clause of the loop over the items, narrowed to PermissionError
ItemErrorsCaught_permission_only == {"PermissionError"}

\* The error classes the except clause of the loop over the items catches
ItemErrorsCaught == {"PermissionError", "OSError"}

\* get_file_hash: the digest of the file's content, None when opening or
\* reading it raises PermissionError or another OSError
get_file_hash(f, p) ==
    IF ~is_file(f, p) \/ FaultAt(f, resolve(f, p), "open") # "" THEN None
    ELSE md5(f[resolve(f, p)].content)

\* The file entry with a hash whatever the flag says
file_info_of_always_hash(f, item, include_hash) ==
    [name |-> basename(item), size |-> st_size(f[resolve(f, item)].content),
     hash |-> get_file_hash(f, item)]

\* The file_info dictionary _scan_recursive builds for file item. The
\* "modified" time stamp of a file is not modelled (no operation of the model
\* reads it).
file_info_of(f, item, include_hash) ==
    LET base == [name |-> basename(item),
                 size |-> st_size(f[resolve(f, item)].content)]
    IN IF include_hash
       THEN base @@ ("hash" :> get_file_hash(f, item))
       ELSE base

\* What a call returns when it raises instead: the class of the error
Raise(err) == [raised |-> err]
Raises(r) == "raised" \in DOMAIN r

\* _scan_recursive: the record node of directory path, or the error the call
\* raises. The warning printed for a skipped item is not modelled.
RECURSIVE _scan_recursive(_, _, _)
_scan_recursive(f, path, include_hash) ==
    LET real == resolve(f, path)
        listing == FaultAt(f, real, "list")
        RECURSIVE Loop(_, _)
        Loop(ns, result) ==
            IF ns = <<>> THEN result
            ELSE LET item == Append(real, Head(ns))
                     sub == _scan_recursive(f, item, include_hash)
                     err == IF FaultAt(f, item, "stat") # "" THEN FaultAt(f, item, "stat")
                            ELSE IF is_dir(f, item) /\ Raises(sub) THEN sub.raised
                            ELSE ""
                 IN IF err # ""
                    THEN IF err \in ItemErrorsCaught
                         THEN Loop(Tail(ns), result)
                         ELSE Raise(err)
                    ELSE IF is_file(f, item)
                    THEN Loop(Tail(ns),
                              [result EXCEPT !.files =
                                  Append(@, file_info_of(f, item, include_hash))])
                    ELSE IF is_dir(f, item)
                    THEN Loop(Tail(ns),
                              [result EXCEPT !.directories = Append(@, <<Head(ns), sub>>)])
                    ELSE Loop(Tail(ns), result)
    IN IF listing = "" THEN Loop(iterdir(f, real), [files |-> <<>>, directories |-> <<>>])
       ELSE IF listing \in ListErrorsCaught THEN [files |-> <<>>, directories |-> <<>>]
       ELSE Raise(listing)

\* scan_directory with the test that the root is a directory left out
scan_directory_any_path(f, root_path, include_hash) ==
    IF ~exists(f, root_path) THEN Raise("ValueError: Path does not exist")
    ELSE LET tree == IF is_dir(f, root_path)
                     THEN _scan_recursive(f, root_path, include_hash)
                     ELSE [files |-> <<>>, directories |-> <<>>]
         IN IF Raises(tree) THEN tree
            ELSE [root |-> root_path, include_hash |-> include_hash, tree |-> tree]

\* scan_directory: the record, or the error raised. The "captured_at" time
\* stamp is not modelled.
scan_directory(f, root_path, include_hash) ==
    IF ~exists(f, root_path) THEN Raise("ValueError: Path does not exist")
    ELSE IF ~is_dir(f, root_path) THEN Raise("ValueError: Path is not a directory")
    ELSE LET tree == _scan_recursive(f, root_path, include_hash)
         IN IF Raises(tree) THEN tree
            ELSE [root |-> root_path, include_hash |-> include_hash, tree |-> tree]

\* count_files, count_directories
RECURSIVE count_files(_)
count_files(tree) ==
    LET RECURSIVE Sum(_)
        Sum(ds) == IF ds = <<>> THEN 0 ELSE count_files(Head(ds)[2]) + Sum(Tail(ds))
    IN Len(tree.files) + Sum(tree.directories)

\* count_directories without its recursive call: the children of the root only
count_directories_top(tree) == Len(tree.directories)

RECURSIVE count_directories(_)
count_directories(tree) ==
    LET RECURSIVE Sum(_)
        Sum(ds) == IF ds = <<>> THEN 0
                   ELSE count_directories(Head(ds)[2]) + Sum(Tail(ds))
    IN Len(tree.directories) + Sum(tree.directories)

\* ------------------------------------------------- records of other producers
\* The two spellings of the key that holds a file entry's name: the Capturer
\* writes "name", FileList.json (merge_csv_to_json.py) carries "Filename".
NameKeys == {"name", "Filename"}

\* file entry e of the Capturer with its name under key k
Respell(e, k) ==
    [x \in (DOMAIN e \ {"name"}) \cup {k} |-> IF x = k THEN e["name"] ELSE e[x]]

\* The tree with every file entry's name under key k
RECURSIVE WithKey(_, _)
WithKey(tree, k) ==
    [files |-> [i \in DOMAIN tree.files |-> Respell(tree.files[i], k)],
     directories |-> [i \in DOMAIN tree.directories |->
                         <<tree.directories[i][1], WithKey(tree.directories[i][2], k)>>]]

\* A record as a producer of either spelling writes it; with flagged = FALSE
\* the record carries no "include_hash" key at all.
RecordOf(t, include_hash, k, flagged) ==
    LET rec == scan_directory(Materialize(<<"orig">>, t), <<"orig">>, include_hash)
        full == [rec EXCEPT !.tree = WithKey(rec.tree, k)]
    IN IF flagged THEN full
       ELSE [x \in DOMAIN full \ {"include_hash"} |-> full[x]]

\* The records a producer of either spelling makes of tree t
RecordsOf(t) ==
    {RecordOf(t, h, k, TRUE) : h \in BOOLEAN, k \in NameKeys}
    \cup {RecordOf(t, FALSE, k, FALSE) : k \in NameKeys}

\* ----------------------------------------------------------- Reconstructor
\* dict.get(key, default)
Get(d, key, default) == IF key \in DOMAIN d THEN d[key] ELSE default

\* The statistics of a new FolderReconstructor
ZeroStats == [dirs_created |-> 0, files_copied |-> 0, files_moved |-> 0, errors |-> 0]

\* No path: the None that _find_matching_file returns
NoPath == <<>>

\* mkdir as Path.mkdir() without exist_ok: an existing directory is an error
mkdir_strict(f, p) ==
    IF exists(f, p) THEN [fs |-> f, err |-> "FileExistsError"]
    ELSE IF Len(p) > 1 /\ ~is_dir(f, parent(p))
         THEN [fs |-> f, err |-> "FileNotFoundError"]
         ELSE [fs |-> Put(f, p, DirEntry), err |-> ""]

\* Path.mkdir(exist_ok=True) of directory p: the file system after it and the
\* error it raises ("" when none). A missing parent makes it fail.
mkdir(f, p) ==
    IF exists(f, p)
    THEN [fs |-> f, err |-> IF is_dir(f, p) THEN "" ELSE "FileExistsError"]
    ELSE IF Len(p) > 1 /\ ~is_dir(f, parent(p))
         THEN [fs |-> f, err |-> "FileNotFoundError"]
         ELSE [fs |-> Put(f, p, DirEntry), err |-> ""]

\* Path.mkdir(parents=True, exist_ok=True): p and its missing ancestors
RECURSIVE mkdir_parents(_, _)
mkdir_parents(f, p) ==
    IF Len(p) <= 1 THEN mkdir(f, p)
    ELSE LET up == mkdir_parents(f, parent(p))
         IN IF up.err # "" THEN up ELSE mkdir(up.fs, p)

\* shutil.copy2 with the destination always taken as a directory
copy2_into(f, src, dst) ==
    IF ~exists(f, src) THEN [fs |-> f, err |-> "FileNotFoundError"]
    ELSE [fs |-> Put(f, Append(dst, basename(src)), FileEntry(f[src].content)),
          err |-> ""]

\* shutil.copy2(src, dst): into dst when dst is a directory; the content of
\* src must be readable
copy2(f, src, dst) ==
    LET real_dst == IF is_dir(f, dst) THEN Append(dst, basename(src)) ELSE dst
    IN IF ~exists(f, src) THEN [fs |-> f, err |-> "FileNotFoundError"]
       ELSE IF is_dir(f, src) \/ is_dir(f, real_dst)
            THEN [fs |-> f, err |-> "IsADirectoryError"]
       ELSE IF src = real_dst THEN [fs |-> f, err |-> "SameFileError"]
       ELSE IF FaultAt(f, src, "open") # ""
            THEN [fs |-> f, err |-> FaultAt(f, src, "open")]
       ELSE [fs |-> Put(f, real_dst, FileEntry(f[src].content)), err |-> ""]

\* shutil.move(src, dst) of a file: into dst when dst is a directory, and then
\* never over an existing entry
move(f, src, dst) ==
    LET real_dst == IF is_dir(f, dst) THEN Append(dst, basename(src)) ELSE dst
    IN IF is_dir(f, dst) /\ exists(f, real_dst)
       THEN [fs |-> f, err |-> "Error: Destination path already exists"]
       ELSE IF ~exists(f, src) THEN [fs |-> f, err |-> "FileNotFoundError"]
       ELSE IF src = real_dst THEN [fs |-> f, err |-> ""]
       ELSE [fs |-> Put(Remove(f, src), real_dst, f[src]), err |-> ""]

\* os.walk(source_path) restricted to its files: the paths of the files below
\* directory p, a directory's own files before those of its subdirectories,
\* the entries of every directory in the order ord (os.scandir's order, which
\* the platform chooses).
RECURSIVE walk_files(_, _, _)
walk_files(f, p, ord) ==
    LET here == SelectSeq(ord, LAMBDA n : is_file(f, Append(p, n)))
        subs == SelectSeq(ord, LAMBDA n : is_dir(f, Append(p, n)))
        RECURSIVE Below(_)
        Below(ds) == IF ds = <<>> THEN <<>>
                     ELSE walk_files(f, Append(p, Head(ds)), ord) \o Below(Tail(ds))
    IN [i \in DOMAIN here |-> Append(p, here[i])] \o Below(subs)

\* _build_file_map: file name -> the paths of the pool files of that name, in
\* the order of the walk
_build_file_map(f, source_path, ord) ==
    LET found == walk_files(f, source_path, ord)
        names == {basename(found[i]) : i \in DOMAIN found}
    IN [n \in names |-> SelectSeq(found, LAMBDA q : basename(q) = n)]

\* _get_file_hash of the reconstructor: None when the file cannot be opened
\* or read
_get_file_hash(f, filepath) ==
    IF ~is_file(f, filepath) \/ FaultAt(f, filepath, "open") # "" THEN None
    ELSE md5(f[filepath].content)

\* _find_matching_file without the comparison of hashes: the first candidate
_find_matching_file_first(f, filename, file_info, fmap, verify) ==
    IF filename \notin DOMAIN fmap
    THEN [path |-> NoPath, warned |-> FALSE, hashed |-> <<>>]
    ELSE [path |-> fmap[filename][1], warned |-> Len(fmap[filename]) > 1,
          hashed |-> <<>>]

\* _find_matching_file with the hashes compared whatever the number of
\* candidates
_find_matching_file_always_hashed(f, filename, file_info, fmap, verify) ==
    IF filename \notin DOMAIN fmap
    THEN [path |-> NoPath, warned |-> FALSE, hashed |-> <<>>]
    ELSE LET candidates == fmap[filename]
             compare == verify /\ "hash" \in DOMAIN file_info
             hits == IF compare
                     THEN {i \in DOMAIN candidates :
                             _get_file_hash(f, candidates[i]) = file_info["hash"]}
                     ELSE {}
             first == CHOOSE i \in hits : \A j \in hits : i <= j
         IN IF hits # {}
            THEN [path |-> candidates[first], warned |-> FALSE,
                  hashed |-> SubSeq(candidates, 1, first)]
            ELSE [path |-> candidates[1], warned |-> Len(candidates) > 1,
                  hashed |-> IF compare THEN candidates ELSE <<>>]

\* _find_matching_file with the last candidate as the fallback
_find_matching_file_last(f, filename, file_info, fmap, verify) ==
    IF filename \notin DOMAIN fmap
    THEN [path |-> NoPath, warned |-> FALSE, hashed |-> <<>>]
    ELSE LET candidates == fmap[filename]
             compare == verify /\ "hash" \in DOMAIN file_info
             hits == IF compare
                     THEN {i \in DOMAIN candidates :
                             _get_file_hash(f, candidates[i]) = file_info["hash"]}
                     ELSE {}
             first == CHOOSE i \in hits : \A j \in hits : i <= j
         IN IF Len(candidates) = 1
            THEN [path |-> candidates[1], warned |-> FALSE, hashed |-> <<>>]
            ELSE IF hits # {}
                 THEN [path |-> candidates[first], warned |-> FALSE,
                       hashed |-> SubSeq(candidates, 1, first)]
                 ELSE [path |-> candidates[Len(candidates)], warned |-> TRUE,
                       hashed |-> IF compare THEN candidates ELSE <<>>]

\* _find_matching_file: the selected source path (NoPath for None), whether
\* the "Multiple matches ... using first" warning is logged, and the
\* candidates whose content was read to compute a hash, in that order
_find_matching_file(f, filename, file_info, fmap, verify) ==
    IF filename \notin DOMAIN fmap
    THEN [path |-> NoPath, warned |-> FALSE, hashed |-> <<>>]
    ELSE LET candidates == fmap[filename]
             compare == verify /\ "hash" \in DOMAIN file_info
             hits == IF compare
                     THEN {i \in DOMAIN candidates :
                             _get_file_hash(f, candidates[i]) = file_info["hash"]}
                     ELSE {}
             first == CHOOSE i \in hits : \A j \in hits : i <= j
         IN IF Len(candidates) = 1
            THEN [path |-> candidates[1], warned |-> FALSE, hashed |-> <<>>]
            ELSE IF hits # {}
                 THEN [path |-> candidates[first], warned |-> FALSE,
                       hashed |-> SubSeq(candidates, 1, first)]
                 ELSE [path |-> candidates[1], warned |-> TRUE,
                       hashed |-> IF compare THEN candidates ELSE <<>>]

\* The setup checks with a record that lacks "include_hash" taken as hashed
SetupError_default_true(rec, f, source_path, mode_arg, verify) ==
    IF mode_arg \notin {"copy", "move"} THEN "InvalidMode"
    ELSE IF verify /\ ~Get(rec, "include_hash", TRUE)
         THEN "HashVerificationUnavailable"
    ELSE IF ~exists(f, source_path) THEN "SourceNotFound"
    ELSE ""

\* The setup checks of reconstruct_with_files: the error raised ("" when the
\* call passes them)
SetupError(rec, f, source_path, mode_arg, verify) ==
    IF mode_arg \notin {"copy", "move"} THEN "InvalidMode"
    ELSE IF verify /\ ~Get(rec, "include_hash", FALSE)
         THEN "HashVerificationUnavailable"
    ELSE IF ~exists(f, source_path) THEN "SourceNotFound"
    ELSE ""

\* The setup with the target root created before the checks are made
Setup_mkdir_first(rec, f, source_path, target_path, mode_arg, verify) ==
    LET made == mkdir_parents(f, target_path)
        err == SetupError(rec, f, source_path, mode_arg, verify)
    IN IF made.err # "" THEN made
       ELSE [fs |-> made.fs, err |-> err]

\* reconstruct_with_files up to the creation of the target root: the error
\* raised ("" when none) and the file system left behind
Setup(rec, f, source_path, target_path, mode_arg, verify) ==
    LET err == SetupError(rec, f, source_path, mode_arg, verify)
    IN IF err # "" THEN [fs |-> f, err |-> err]
       ELSE mkdir_parents(f, target_path)

\* The order in which _process_tree_recursive handles the entries of tree
\* under target_base: the files of a node, then each subdirectory followed by
\* its own entries.
RECURSIVE ProcessOrder(_, _)
ProcessOrder(target_base, tree) ==
    LET RECURSIVE Subdirs(_)
        Subdirs(ds) ==
            IF ds = <<>> THEN <<>>
            ELSE LET target_subdir == Append(target_base, Head(ds)[1])
                 IN <<[op |-> "mkdir", path |-> target_subdir]>>
                    \o ProcessOrder(target_subdir, Head(ds)[2])
                    \o Subdirs(Tail(ds))
    IN [i \in DOMAIN tree.files |->
          [op |-> "file", path |-> target_base, info |-> tree.files[i]]]
       \o Subdirs(tree.directories)

\* _create_dirs_recursive without its recursive call: the top level only
CreateOrder_flat(base_path, tree) ==
    [i \in DOMAIN tree.directories |->
        [op |-> "mkdir", path |-> Append(base_path, tree.directories[i][1])]]

\* The order in which _create_dirs_recursive creates the directories of tree
RECURSIVE CreateOrder(_, _)
CreateOrder(base_path, tree) ==
    LET RECURSIVE Subdirs(_)
        Subdirs(ds) ==
            IF ds = <<>> THEN <<>>
            ELSE LET dir_path == Append(base_path, Head(ds)[1])
                 IN <<[op |-> "mkdir", path |-> dir_path]>>
                    \o CreateOrder(dir_path, Head(ds)[2])
                    \o Subdirs(Tail(ds))
    IN Subdirs(tree.directories)

\* The pool index with the selected path taken out of the candidates
file_map_consumed(fmap, filename, selected) ==
    IF filename \notin DOMAIN fmap THEN fmap
    ELSE LET rest == SelectSeq(fmap[filename], LAMBDA q : q # selected)
         IN IF rest = <<>>
            THEN [n \in DOMAIN fmap \ {filename} |-> fmap[n]]
            ELSE [fmap EXCEPT ![filename] = rest]

\* The pool index after the lookup of filename selected a path:
\* _find_matching_file reads file_map and nothing of the walk writes it
file_map_after(fmap, filename, selected) == fmap

\* The counters with the transfer counted before it is made
stats_after_counted_first(st, mode_arg, outcome) ==
    LET counted == IF outcome = "not_found" THEN st
                   ELSE IF mode_arg = "copy"
                        THEN [st EXCEPT !.files_copied = @ + 1]
                        ELSE [st EXCEPT !.files_moved = @ + 1]
    IN IF outcome = "transferred" THEN counted
       ELSE [counted EXCEPT !.errors = @ + 1]

\* The counters with an entry that has no pool file left uncounted
stats_after_found_only(st, mode_arg, outcome) ==
    IF outcome = "not_found" THEN st
    ELSE IF outcome = "error" THEN [st EXCEPT !.errors = @ + 1]
    ELSE IF mode_arg = "copy" THEN [st EXCEPT !.files_copied = @ + 1]
    ELSE [st EXCEPT !.files_moved = @ + 1]

\* self.stats after one file entry: outcome is "not_found" (no source file),
\* "error" (the transfer raised) or "transferred"
stats_after(st, mode_arg, outcome) ==
    IF outcome \in {"not_found", "error"} THEN [st EXCEPT !.errors = @ + 1]
    ELSE IF mode_arg = "copy" THEN [st EXCEPT !.files_copied = @ + 1]
    ELSE [st EXCEPT !.files_moved = @ + 1]

\* The key under which _process_tree_recursive reads a file entry's name
FilenameKey == "Filename"

\* ------------------------------------------------------------- CSV merge
\* The values a CSV row gives for the columns url and openAccess
Urls == {"", "https://host/file"}

\* load_csv_data: the mappings a CSV file can give, from file name to the
\* attributes of its row
UrlMappings ==
    UNION {[ns -> [url : Urls, openAccess : BOOLEAN]] : ns \in SUBSET Names}

\* enhance_tree: the tree with the attributes of url_mapping added, or the
\* error raised
RECURSIVE enhance_tree(_, _)
enhance_tree(tree, url_mapping) ==
    LET enhanced(file_info) ==
            LET filename == file_info["Filename"]
            IN IF filename \in DOMAIN url_mapping
               THEN ("url" :> url_mapping[filename].url)
                    @@ ("openAccess" :> url_mapping[filename].openAccess)
                    @@ file_info
               ELSE file_info
        subtrees == [i \in DOMAIN tree.directories |->
                        enhance_tree(tree.directories[i][2], url_mapping)]
    IN IF \E i \in DOMAIN tree.files : "Filename" \notin DOMAIN tree.files[i]
       THEN Raise("KeyError")
       ELSE IF \E i \in DOMAIN subtrees : Raises(subtrees[i])
       THEN Raise("KeyError")
       ELSE [files |-> [i \in DOMAIN tree.files |-> enhanced(tree.files[i])],
             directories |-> [i \in DOMAIN tree.directories |->
                                 <<tree.directories[i][1], subtrees[i]>>]]

\* ------------------------------------------------------ dataset downloader
\* A FileList.json record whose file entries named in ns carry a URL
RECURSIVE WithUrls(_, _)
WithUrls(tree, ns) ==
    [files |-> [i \in DOMAIN tree.files |->
                   LET info == tree.files[i]
                       n == IF "name" \in DOMAIN info THEN info["name"]
                            ELSE info["Filename"]
                   IN IF n \in ns THEN ("url" :> "https://host/file") @@ info
                      ELSE info],
     directories |-> [i \in DOMAIN tree.directories |->
                         <<tree.directories[i][1], WithUrls(tree.directories[i][2], ns)>>]]

\* The statistics of a new DatasetDownloader
ZeroDownloadStats ==
    [files_downloaded |-> 0, files_skipped |-> 0, files_failed |-> 0,
     bytes_downloaded |-> 0]

\* _count_files
RECURSIVE _count_files(_)
_count_files(tree) ==
    LET RECURSIVE Sum(_)
        Sum(ds) == IF ds = <<>> THEN 0 ELSE _count_files(Head(ds)[2]) + Sum(Tail(ds))
    IN Len(Get(tree, "files", <<>>)) + Sum(Get(tree, "directories", <<>>))

\* The order in which _download_tree_recursive handles the entries of tree
\* under base_path: the files of a node, then, when create_structure is set,
\* each subdirectory followed by its own entries.
RECURSIVE DownloadOrder(_, _, _)
DownloadOrder(base_path, tree, create_structure) ==
    LET RECURSIVE Subdirs(_)
        Subdirs(ds) ==
            IF ds = <<>> THEN <<>>
            ELSE LET subdir_path == Append(base_path, Head(ds)[1])
                 IN <<[op |-> "mkdir", path |-> subdir_path]>>
                    \o DownloadOrder(subdir_path, Head(ds)[2], create_structure)
                    \o Subdirs(Tail(ds))
        files == Get(tree, "files", <<>>)
    IN [i \in DOMAIN files |-> [op |-> "file", path |-> base_path, info |-> files[i]]]
       \o (IF create_structure THEN Subdirs(Get(tree, "directories", <<>>)) ELSE <<>>)

\* open(file_path, 'wb') and the writing of content c
write_file(f, p, c) ==
    IF is_dir(f, p) THEN [fs |-> f, err |-> "IsADirectoryError"]
    ELSE IF ~is_dir(f, parent(p)) THEN [fs |-> f, err |-> "FileNotFoundError"]
    ELSE [fs |-> Put(f, p, FileEntry(c)), err |-> ""]

\* ------------------------------------------------------------------- state
VARIABLES
    fs,          \* the file system: path -> entry
    structure,   \* self.structure, the loaded record (<<>> before any is loaded)
    stats,       \* self.stats
    pc,          \* "idle", "walking", "done" (returned) or "raised"
    exc,         \* the error the call raised, "" when none
    call,        \* the call in progress or last made, with its arguments
    file_map,    \* the pool index of the call
    agenda,      \* the entries of the record the walk has still to handle
    log,         \* the messages logged by the call, oldest first
    pre,         \* the file system and statistics when the call was made
    runs,        \* the number of calls made so far
    last         \* the call before this one and how it ended

vars == <<fs, structure, stats, pc, exc, call, file_map, agenda, log, pre, runs, last>>

NoCall == [op |-> "none"]

PoolRoot == <<"pool">>
OrigRoot == <<"orig">>
TargetRoot == <<"target">>
OtherRoot == <<"other">>

\* The orders in which os.scandir may list the entries of a directory
Orders == {o \in [1 .. Len(NameOrder) -> Names] :
              \A i, j \in DOMAIN o : i # j => o[i] # o[j]}

\* save_structure of the directory OrigRoot, followed by the construction of a
\* FolderReconstructor on the file written
CaptureAndLoad(include_hash) ==
    /\ pc = "idle"
    /\ DOMAIN structure = {}
    /\ is_dir(fs, OrigRoot)
    /\ structure' = scan_directory(fs, OrigRoot, include_hash)
    /\ stats' = ZeroStats
    /\ UNCHANGED <<fs, pc, exc, call, file_map, agenda, log, pre, runs, last>>

\* The file save_structure writes: the JSON text of record rec
JsonFile(rec) == [kind |-> "file", json |-> rec]

OutputFile == <<"folder_structure.json">>

\* save_structure(root_path, output_file, include_hash), for a root whose own
\* metadata can be read
SaveStructure(root_path, output_file, include_hash) ==
    /\ pc = "idle"
    /\ DOMAIN structure = {}
    /\ call = NoCall
    /\ FaultAt(fs, root_path, "stat") = ""
    /\ call' = [op |-> "capture", root |-> root_path, output |-> output_file,
                include_hash |-> include_hash]
    /\ pre' = [fs |-> fs, stats |-> stats]
    /\ LET rec == scan_directory(fs, root_path, include_hash)
       IN IF Raises(rec)
          THEN /\ pc' = "raised" /\ exc' = rec.raised
               /\ log' = <<[ev |-> "scanning"]>>
               /\ fs' = fs
          ELSE /\ fs' = Put(fs, output_file, JsonFile(rec))
               /\ log' = <<[ev |-> "scanning"], [ev |-> "saving"],
                           [ev |-> "captured",
                            files |-> count_files(rec["tree"]),
                            dirs |-> count_directories(rec["tree"])]>>
               /\ pc' = "done" /\ exc' = ""
    /\ UNCHANGED <<structure, stats, file_map, agenda, runs, last>>

FileListPath == <<"FileList.json">>
EnhancedPath == <<"FileList_enhanced.json">>

\* FileListEnhancer(csv_file, json_file).merge(output_file), with
\* url_mapping the content of the CSV file
Merge(url_mapping, output_file) ==
    /\ pc \in {"idle", "done"}
    /\ runs < MaxRuns
    /\ runs' = runs + 1
    /\ call' = [op |-> "merge", csv |-> url_mapping, json_file |-> FileListPath,
                output |-> output_file]
    /\ pre' = [fs |-> fs, stats |-> stats]
    /\ LET loaded == fs[FileListPath].json
           tree == enhance_tree(loaded["tree"], url_mapping)
       IN IF Raises(tree)
          THEN /\ pc' = "raised" /\ exc' = tree.raised
               /\ fs' = fs
               /\ log' = <<>>
          ELSE /\ fs' = Put(fs, output_file, JsonFile([loaded EXCEPT !["tree"] = tree]))
               /\ log' = <<[ev |-> "merged"]>>
               /\ pc' = "done" /\ exc' = ""
    /\ UNCHANGED <<structure, stats, file_map, agenda, last>>

DownloadRoot == <<"downloaded_dataset">>

\* download_dataset up to the start of the walk, on a loaded FileList
DownloadStart(target_path, skip_existing, create_structure) ==
    /\ pc = "idle"
    /\ DOMAIN structure # {}
    /\ runs < MaxRuns
    /\ runs' = runs + 1
    /\ call' = [op |-> "download", target |-> target_path,
                skip_existing |-> skip_existing, create_structure |-> create_structure]
    /\ pre' = [fs |-> fs, stats |-> stats]
    /\ LET made == mkdir_parents(fs, target_path)
       IN IF made.err # ""
          THEN /\ pc' = "raised" /\ exc' = made.err
               /\ log' = <<>>
               /\ UNCHANGED <<fs, agenda>>
          ELSE /\ fs' = made.fs
               /\ log' = <<[ev |-> "total", n |-> _count_files(structure["tree"])]>>
               /\ agenda' = DownloadOrder(target_path, structure["tree"], create_structure)
               /\ pc' = "walking" /\ exc' = ""
    /\ UNCHANGED <<structure, stats, file_map, last>>

\* One iteration of the loop over tree['files'] of _download_tree_recursive,
\* with _download_file; the server answers with content c (ok) or the request
\* fails
DownloadFile(ok, c) ==
    /\ pc = "walking" /\ call.op = "download"
    /\ agenda # <<>> /\ Head(agenda).op = "file"
    /\ LET file_info == Head(agenda).info
           filename == Get(file_info, "name", Get(file_info, "Filename", ""))
           file_path == Append(Head(agenda).path, filename)
           made == mkdir_parents(fs, parent(file_path))
           written == IF made.err # "" THEN made ELSE write_file(made.fs, file_path, c)
       IN IF filename = ""
          THEN /\ log' = Append(log, [ev |-> "no_name"])
               /\ UNCHANGED <<fs, stats>>
          ELSE IF "url" \notin DOMAIN file_info
          THEN /\ log' = Append(log, [ev |-> "no_url", name |-> filename])
               /\ stats' = [stats EXCEPT !.files_skipped = @ + 1]
               /\ fs' = fs
          ELSE IF call.skip_existing /\ exists(fs, file_path)
          THEN /\ log' = Append(log, [ev |-> "exists", name |-> filename])
               /\ stats' = [stats EXCEPT !.files_skipped = @ + 1]
               /\ fs' = fs
          ELSE IF ~ok
          THEN /\ log' = Append(log, [ev |-> "failed", name |-> filename])
               /\ stats' = [stats EXCEPT !.files_failed = @ + 1]
               /\ fs' = fs
          ELSE IF written.err # ""
          THEN /\ log' = Append(log, [ev |-> "failed", name |-> filename])
               /\ stats' = [stats EXCEPT !.files_failed = @ + 1]
               /\ fs' = written.fs
          ELSE /\ log' = Append(log, [ev |-> "downloaded", name |-> filename,
                                      dst |-> file_path])
               /\ stats' = [stats EXCEPT !.files_downloaded = @ + 1,
                                         !.bytes_downloaded = @ + st_size(c)]
               /\ fs' = written.fs
    /\ agenda' = Tail(agenda)
    /\ UNCHANGED <<structure, pc, exc, call, file_map, pre, runs, last>>

\* One iteration of the loop over tree['directories'], up to the recursive call
DownloadDir ==
    /\ pc = "walking" /\ call.op = "download"
    /\ agenda # <<>> /\ Head(agenda).op = "mkdir"
    /\ LET made == mkdir(fs, Head(agenda).path)
       IN IF made.err # ""
          THEN /\ pc' = "raised" /\ exc' = made.err
               /\ UNCHANGED <<fs, agenda>>
          ELSE /\ fs' = made.fs
               /\ agenda' = Tail(agenda)
               /\ UNCHANGED <<pc, exc>>
    /\ UNCHANGED <<structure, stats, call, file_map, log, pre, runs, last>>

\* _print_stats and the return of download_dataset
DownloadDone ==
    /\ pc = "walking" /\ call.op = "download"
    /\ agenda = <<>>
    /\ log' = Append(log, [ev |-> "summary", stats |-> stats])
    /\ pc' = "done"
    /\ UNCHANGED <<fs, structure, stats, exc, call, file_map, agenda, pre, runs, last>>

\* create_empty_structure up to the start of the walk
CreateEmptyStart(target_path) ==
    /\ pc = "idle"
    /\ DOMAIN structure # {}
    /\ runs < MaxRuns
    /\ runs' = runs + 1
    /\ call' = [op |-> "skeleton", target |-> target_path]
    /\ pre' = [fs |-> fs, stats |-> stats]
    /\ log' = <<>>
    /\ LET made == mkdir_parents(fs, target_path)
       IN IF made.err # ""
          THEN /\ pc' = "raised" /\ exc' = made.err
               /\ UNCHANGED <<fs, agenda>>
          ELSE /\ fs' = made.fs
               /\ agenda' = CreateOrder(target_path, structure["tree"])
               /\ pc' = "walking" /\ exc' = ""
    /\ UNCHANGED <<structure, stats, file_map, last>>

\* One iteration of the loop of _create_dirs_recursive, up to the recursive call
CreateDir ==
    /\ pc = "walking" /\ call.op = "skeleton"
    /\ agenda # <<>>
    /\ LET made == mkdir(fs, Head(agenda).path)
       IN IF made.err # ""
          THEN /\ pc' = "raised" /\ exc' = made.err
               /\ UNCHANGED <<fs, stats, agenda>>
          ELSE /\ fs' = made.fs
               /\ stats' = [stats EXCEPT !.dirs_created = @ + 1]
               /\ agenda' = Tail(agenda)
               /\ UNCHANGED <<pc, exc>>
    /\ UNCHANGED <<structure, call, file_map, log, pre, runs, last>>

\* The report and the return of create_empty_structure
CreateDone ==
    /\ pc = "walking" /\ call.op = "skeleton"
    /\ agenda = <<>>
    /\ log' = Append(log, [ev |-> "created", n |-> stats["dirs_created"]])
    /\ pc' = "done"
    /\ UNCHANGED <<fs, structure, stats, exc, call, file_map, agenda, pre, runs, last>>

\* reconstruct_with_files up to the start of the walk
ReconstructStart(source_path, target_path, mode_arg, verify) ==
    /\ pc = "idle"
    /\ DOMAIN structure # {}
    /\ runs < MaxRuns
    /\ runs' = runs + 1
    /\ call' = [op |-> "populate", source |-> source_path, target |-> target_path,
                mode |-> mode_arg, verify_hash |-> verify]
    /\ pre' = [fs |-> fs, stats |-> stats]
    /\ log' = <<>>
    /\ LET set == Setup(structure, fs, source_path, target_path, mode_arg, verify)
       IN IF set.err # ""
          THEN /\ pc' = "raised" /\ exc' = set.err
               /\ fs' = set.fs
               /\ UNCHANGED <<file_map, agenda>>
          ELSE \E ord \in Orders :
               /\ fs' = set.fs
               /\ file_map' = _build_file_map(set.fs, source_path, ord)
               /\ agenda' = ProcessOrder(target_path, structure["tree"])
               /\ pc' = "walking" /\ exc' = ""
    /\ UNCHANGED <<structure, stats, last>>

\* One iteration of the loop over tree["files"]. The messages of the log
\* carry, besides what the code prints, the source path selected and the
\* candidates that were hashed.
ProcessFile ==
    /\ pc = "walking" /\ call.op = "populate"
    /\ agenda # <<>> /\ Head(agenda).op = "file"
    /\ LET file_info == Head(agenda).info
           target_base == Head(agenda).path
       IN IF FilenameKey \notin DOMAIN file_info
          THEN /\ pc' = "raised" /\ exc' = "KeyError"
               /\ UNCHANGED <<fs, stats, agenda, log, file_map>>
          ELSE LET filename == file_info[FilenameKey]
                   target_file == Append(target_base, filename)
                   found == _find_matching_file(fs, filename, file_info, file_map,
                                                call.verify_hash)
                   warning == IF found.warned
                              THEN <<[ev |-> "multiple_matches", name |-> filename]>>
                              ELSE <<>>
                   made == mkdir_parents(fs, target_base)
                   done == IF made.err # "" THEN made
                           ELSE IF call.mode = "copy"
                                THEN copy2(made.fs, found.path, target_file)
                                ELSE move(made.fs, found.path, target_file)
                   outcome == IF found.path = NoPath THEN "not_found"
                              ELSE IF done.err # "" THEN "error"
                              ELSE "transferred"
               IN /\ log' = log \o warning \o
                       <<IF outcome = "not_found"
                         THEN [ev |-> "not_found", name |-> filename]
                         ELSE [ev |-> IF outcome = "error" THEN "error" ELSE call.mode,
                               name |-> filename, src |-> found.path,
                               dst |-> target_file, hashed |-> found.hashed]>>
                  /\ stats' = stats_after(stats, call.mode, outcome)
                  /\ fs' = IF outcome = "not_found" THEN fs ELSE done.fs
                  /\ file_map' = file_map_after(file_map, filename, found.path)
                  /\ agenda' = Tail(agenda)
                  /\ UNCHANGED <<pc, exc>>
    /\ UNCHANGED <<structure, call, pre, runs, last>>

\* One iteration of the loop over tree["directories"], up to the recursive call
ProcessDir ==
    /\ pc = "walking" /\ call.op = "populate"
    /\ agenda # <<>> /\ Head(agenda).op = "mkdir"
    /\ LET made == mkdir(fs, Head(agenda).path)
       IN IF made.err # ""
          THEN /\ pc' = "raised" /\ exc' = made.err
               /\ UNCHANGED <<fs, stats, agenda>>
          ELSE /\ fs' = made.fs
               /\ stats' = [stats EXCEPT !.dirs_created = @ + 1]
               /\ agenda' = Tail(agenda)
               /\ UNCHANGED <<pc, exc>>
    /\ UNCHANGED <<structure, call, file_map, log, pre, runs, last>>

\* _print_stats and the return of reconstruct_with_files
PrintStats ==
    /\ pc = "walking" /\ call.op = "populate"
    /\ agenda = <<>>
    /\ log' = Append(log, [ev |-> "summary", stats |-> stats])
    /\ pc' = "done"
    /\ UNCHANGED <<fs, structure, stats, exc, call, file_map, agenda, pre, runs, last>>

\* The caller's next call: through reconstruct_structure, which constructs a
\* new FolderReconstructor on the same structure file (fresh), or on the
\* object it already holds.
Again(fresh) ==
    /\ pc \in {"done", "raised"}
    /\ runs < MaxRuns
    /\ last' = [op |-> call.op, target |-> call.target, outcome |-> pc, exc |-> exc]
    /\ pc' = "idle"
    /\ exc' = ""
    /\ stats' = IF fresh THEN ZeroStats ELSE stats
    /\ UNCHANGED <<fs, structure, call, file_map, agenda, log, pre, runs>>

\* ---------------------------------------------------------- specifications
\* Populate mode: a reconstructor that has loaded a record, and a source pool
\* that need not be laid out as the record is.
Init ==
    /\ \E n \in 0 .. MaxEntries :
         \E pool \in TreesOver(NameOrder, n), t \in TreesUpTo(MaxEntries - n) :
            /\ fs = Materialize(PoolRoot, pool)
            /\ structure \in RecordsOf(t)
    /\ stats = ZeroStats
    /\ pc = "idle"
    /\ exc = ""
    /\ call = NoCall
    /\ file_map = <<>>
    /\ agenda = <<>>
    /\ log = <<>>
    /\ pre = [fs |-> fs, stats |-> ZeroStats]
    /\ runs = 0
    /\ last = NoCall

Next ==
    \/ \E src \in {PoolRoot, <<"missing">>}, m \in {"copy", "move", "link"},
          v \in BOOLEAN : ReconstructStart(src, TargetRoot, m, v)
    \/ ProcessFile
    \/ ProcessDir
    \/ PrintStats

Spec == Init /\ [][Next]_vars

\* A directory that has not been captured yet
InitOrig ==
    /\ fs \in {Materialize(OrigRoot, t) : t \in TreesUpTo(MaxEntries)}
    /\ structure = <<>>
    /\ stats = ZeroStats
    /\ pc = "idle"
    /\ exc = ""
    /\ call = NoCall
    /\ file_map = <<>>
    /\ agenda = <<>>
    /\ log = <<>>
    /\ pre = [fs |-> fs, stats |-> ZeroStats]
    /\ last = NoCall

\* Capture of a directory, then populate mode with that directory as the pool
InitRoundTrip == InitOrig /\ runs = 0

NextRoundTrip ==
    \/ \E h \in BOOLEAN : CaptureAndLoad(h)
    \/ \E m \in {"copy", "move"}, v \in BOOLEAN :
          ReconstructStart(OrigRoot, TargetRoot, m, v)
    \/ ProcessFile
    \/ ProcessDir
    \/ PrintStats

SpecRoundTrip == InitRoundTrip /\ [][NextRoundTrip]_vars

\* Capture of a directory, then skeleton mode, run up to MaxRuns times
InitSkeleton == InitOrig /\ runs = 0

NextSkeleton ==
    \/ \E h \in BOOLEAN : CaptureAndLoad(h)
    \/ \E t \in {TargetRoot, OtherRoot} : CreateEmptyStart(t)
    \/ CreateDir
    \/ CreateDone
    \/ \E fresh \in BOOLEAN : Again(fresh)

SpecSkeleton == InitSkeleton /\ [][NextSkeleton]_vars

\* Populate mode in move mode, called up to MaxRuns times on the same record,
\* pool and target
NextRepeat ==
    \/ \E v \in BOOLEAN : ReconstructStart(PoolRoot, TargetRoot, "move", v)
    \/ ProcessFile
    \/ ProcessDir
    \/ PrintStats
    \/ \E fresh \in BOOLEAN : Again(fresh)

SpecRepeat == Init /\ [][NextRepeat]_vars

\* Capture of a directory some of whose entries may be unreadable, of one of
\* its entries, or of a path that does not exist
InitCapture ==
    /\ \E t \in TreesUpTo(MaxEntries - 1) :
          fs \in WithFaults(Materialize(OrigRoot, t), MaxFaults)
    /\ structure = <<>>
    /\ stats = ZeroStats
    /\ pc = "idle"
    /\ exc = ""
    /\ call = NoCall
    /\ file_map = <<>>
    /\ agenda = <<>>
    /\ log = <<>>
    /\ pre = [fs |-> fs, stats |-> ZeroStats]
    /\ runs = 0
    /\ last = NoCall

NextCapture ==
    \E root_path \in {OrigRoot, <<"missing">>} \cup {Append(OrigRoot, n) : n \in Names},
       include_hash \in BOOLEAN :
       SaveStructure(root_path, OutputFile, include_hash)

SpecCapture == InitCapture /\ [][NextCapture]_vars

\* The CSV merge, run up to MaxRuns times on a record file written by a
\* producer of either spelling
InitMerge ==
    /\ \E t \in TreesUpTo(MaxEntries - 1) :
          \E rec \in RecordsOf(t) : fs = (FileListPath :> JsonFile(rec))
    /\ structure = <<>>
    /\ stats = ZeroStats
    /\ pc = "idle"
    /\ exc = ""
    /\ call = NoCall
    /\ file_map = <<>>
    /\ agenda = <<>>
    /\ log = <<>>
    /\ pre = [fs |-> fs, stats |-> ZeroStats]
    /\ runs = 0
    /\ last = NoCall

NextMerge ==
    \E url_mapping \in UrlMappings, output_file \in {FileListPath, EnhancedPath} :
       Merge(url_mapping, output_file)

SpecMerge == InitMerge /\ [][NextMerge]_vars

\* The dataset downloader on a local FileList.json whose entries may carry
\* URLs, into an output directory that may hold an entry already
InitDownload ==
    /\ \E t \in TreesUpTo(MaxEntries - 1), old \in TreesUpTo(1), ns \in SUBSET Names :
          \E rec \in RecordsOf(t) :
             /\ structure = [rec EXCEPT !["tree"] = WithUrls(rec["tree"], ns)]
             /\ fs \in {<<>>, Materialize(DownloadRoot, old)}
    /\ stats = ZeroDownloadStats
    /\ pc = "idle"
    /\ exc = ""
    /\ call = NoCall
    /\ file_map = <<>>
    /\ agenda = <<>>
    /\ log = <<>>
    /\ pre = [fs |-> fs, stats |-> ZeroDownloadStats]
    /\ runs = 0
    /\ last = NoCall

NextDownload ==
    \/ \E skip_existing, create_structure \in BOOLEAN :
          DownloadStart(DownloadRoot, skip_existing, create_structure)
    \/ \E ok \in BOOLEAN, c \in Contents : DownloadFile(ok, c)
    \/ DownloadDir
    \/ DownloadDone

SpecDownload == InitDownload /\ [][NextDownload]_vars

\* Populate mode into a target that may hold an entry already
InitExisting ==
    /\ \E k \in 0 .. 1 : \E n \in 0 .. (MaxEntries - k) :
         \E old \in TreesOver(NameOrder, k), pool \in TreesOver(NameOrder, n),
            t \in TreesUpTo(MaxEntries - k - n) :
            /\ fs = Materialize(PoolRoot, pool)
                    @@ (IF k = 0 THEN <<>> ELSE Materialize(TargetRoot, old))
            /\ structure \in RecordsOf(t)
    /\ stats = ZeroStats
    /\ pc = "idle"
    /\ exc = ""
    /\ call = NoCall
    /\ file_map = <<>>
    /\ agenda = <<>>
    /\ log = <<>>
    /\ pre = [fs |-> fs, stats |-> ZeroStats]
    /\ runs = 0
    /\ last = NoCall

NextExisting ==
    \/ \E m \in {"copy", "move"}, v \in BOOLEAN :
          ReconstructStart(PoolRoot, TargetRoot, m, v)
    \/ ProcessFile
    \/ ProcessDir
    \/ PrintStats

SpecExisting == InitExisting /\ [][NextExisting]_vars

\* A directory outside the captured one, for symbolic links to point into
ExtRoot == <<"ext">>

\* What a directory can hold besides files and directories: a symbolic link
\* to a file, to a directory or to nothing, a device, a socket
SpecialEntries ==
    {LinkEntry(Append(ExtRoot, NameOrder[1])), LinkEntry(ExtRoot),
     LinkEntry(<<"gone">>), SpecialEntry("device"), SpecialEntry("socket")}

\* The file systems that differ from f by at most one entry below its
\* top-level directories that is neither a file nor a directory
WithSpecial(f) ==
    {f} \cup {[f EXCEPT ![p] = e] :
                 p \in {q \in DOMAIN f : Len(q) > 1 /\ f[q].kind = "file"},
                 e \in SpecialEntries}

\* Capture of a directory that may hold a symbolic link, a device or a socket
InitSpecial ==
    /\ \E t \in TreesUpTo(MaxEntries - 1), c \in Contents :
          fs \in {g @@ (ExtRoot :> DirEntry)
                     @@ (Append(ExtRoot, NameOrder[1]) :> FileEntry(c)) :
                  g \in WithSpecial(Materialize(OrigRoot, t))}
    /\ structure = <<>>
    /\ stats = ZeroStats
    /\ pc = "idle"
    /\ exc = ""
    /\ call = NoCall
    /\ file_map = <<>>
    /\ agenda = <<>>
    /\ log = <<>>
    /\ pre = [fs |-> fs, stats |-> ZeroStats]
    /\ runs = 0
    /\ last = NoCall

NextSpecial ==
    \E include_hash \in BOOLEAN : SaveStructure(OrigRoot, OutputFile, include_hash)

SpecSpecial == InitSpecial /\ [][NextSpecial]_vars

\* The file systems that differ from f by at most MaxFaults files whose
\* content cannot be read: open() on them raises PermissionError
OpenFaults(f) ==
    {g \in WithFaults(f, MaxFaults) :
        \A p \in DOMAIN g :
           "fault" \in DOMAIN g[p]
              => g[p].fault = [at |-> "open", err |-> "PermissionError"]}

\* The records made of tree t when some of its files could not be read
RecordsOfUnreadable(t) ==
    {[rec EXCEPT !.tree = WithKey(rec.tree, k)] :
        rec \in {scan_directory(g, OrigRoot, h) :
                    g \in OpenFaults(Materialize(OrigRoot, t)), h \in BOOLEAN},
        k \in NameKeys}

\* Populate mode when files of the pool, or files of the directory the record
\* was captured from, cannot be read
InitUnreadable ==
    /\ \E n \in 0 .. MaxEntries :
         \E pool \in TreesOver(NameOrder, n), t \in TreesUpTo(MaxEntries - n) :
            /\ fs \in OpenFaults(Materialize(PoolRoot, pool))
            /\ structure \in RecordsOfUnreadable(t)
    /\ stats = ZeroStats
    /\ pc = "idle"
    /\ exc = ""
    /\ call = NoCall
    /\ file_map = <<>>
    /\ agenda = <<>>
    /\ log = <<>>
    /\ pre = [fs |-> fs, stats |-> ZeroStats]
    /\ runs = 0
    /\ last = NoCall

NextUnreadable ==
    \/ \E m \in {"copy", "move"}, v \in BOOLEAN :
          ReconstructStart(PoolRoot, TargetRoot, m, v)
    \/ ProcessFile
    \/ ProcessDir
    \/ PrintStats

SpecUnreadable == InitUnreadable /\ [][NextUnreadable]_vars

\* Populate mode in move mode without hash verification, with a pool and a
\* record large enough for each to hold the same name twice
InitSameName ==
    /\ \E pool \in TreesUpTo(MaxEntries - 1), t \in TreesUpTo(MaxEntries - 1) :
          /\ fs = Materialize(PoolRoot, pool)
          /\ structure \in RecordsOf(t)
    /\ stats = ZeroStats
    /\ pc = "idle"
    /\ exc = ""
    /\ call = NoCall
    /\ file_map = <<>>
    /\ agenda = <<>>
    /\ log = <<>>
    /\ pre = [fs |-> fs, stats |-> ZeroStats]
    /\ runs = 0
    /\ last = NoCall

NextSameName ==
    \/ ReconstructStart(PoolRoot, TargetRoot, "move", FALSE)
    \/ ProcessFile
    \/ ProcessDir
    \/ PrintStats

SpecSameName == InitSameName /\ [][NextSameName]_vars

\* Populate mode as a sequential program: a call that has started its walk
\* goes on to its next statement
FairSpec ==
    /\ Spec
    /\ WF_vars(ProcessFile)
    /\ WF_vars(ProcessDir)
    /\ WF_vars(PrintStats)

\* ------------------------------------------------------ what the claims read
\* Path p relative to the directory root above it
Rel(p, root) == SubSeq(p, Len(root) + 1, Len(p))

\* The relative paths of the directories and of the files below root
DirsUnder(f, root) ==
    {Rel(p, root) : p \in {q \in DOMAIN f : IsUnder(q, root) /\ q # root /\ is_dir(f, q)}}

FilesUnder(f, root) ==
    {Rel(p, root) : p \in {q \in DOMAIN f : IsUnder(q, root) /\ is_file(f, q)}}

\* The relative paths of the directories a record tree lists
RECURSIVE RecDirs(_)
RecDirs(tree) ==
    UNION {{<<tree.directories[i][1]>>}
           \cup {<<tree.directories[i][1]>> \o r : r \in RecDirs(tree.directories[i][2])} :
           i \in DOMAIN tree.directories}

\* The file entries a record tree lists, each with the relative path of its
\* directory
RECURSIVE RecFiles(_)
RecFiles(tree) ==
    {[dir |-> <<>>, info |-> tree.files[i]] : i \in DOMAIN tree.files}
    \cup UNION {{[dir |-> <<tree.directories[i][1]>> \o e.dir, info |-> e.info] :
                    e \in RecFiles(tree.directories[i][2])} :
                i \in DOMAIN tree.directories}

\* The name a file entry records, under either spelling of the key
EntryName(info) == IF "name" \in DOMAIN info THEN info["name"] ELSE info["Filename"]

\* The errors of the setup checks of populate mode
SetupErrors == {"InvalidMode", "HashVerificationUnavailable", "SourceNotFound"}

\* The messages of the log that report the outcome of one file entry
Outcomes == SelectSeq(log, LAMBDA m : m.ev \in {"copy", "move", "error", "not_found"})

\* The target of the call held nothing when the call was made
TargetEmptyBefore == \A p \in DOMAIN pre.fs : IsUnder(p, call.target) => p = call.target

\* A populate call that got past its setup checks and has ended
PopulateEnded ==
    /\ call.op = "populate"
    /\ pc \in {"done", "raised"}
    /\ exc \notin SetupErrors

\* ------------------------------------------------------------------ claims
\* C1 (as claimed; SpecRoundTrip): a directory captured with hashing and then
\* populated in copy mode from that same directory ends without a fatal
\* error, every recorded path of the target holds a file whose digest is the
\* recorded hash, and the captured directory is unchanged.
C1_CaptureCopyRoundTrip ==
    (/\ call.op = "populate" /\ call.mode = "copy"
     /\ call.source = OrigRoot
     /\ Get(structure, "include_hash", FALSE)
     /\ pc \in {"done", "raised"})
    => /\ pc = "done"
       /\ \A e \in RecFiles(structure["tree"]) :
            LET p == call.target \o e.dir \o <<EntryName(e.info)>>
            IN is_file(fs, p) /\ md5(fs[p].content) = e.info["hash"]
       /\ \A p \in DOMAIN fs \cup DOMAIN pre.fs :
            IsUnder(p, OrigRoot) => p \in DOMAIN fs /\ p \in DOMAIN pre.fs
                                     /\ fs[p] = pre.fs[p]

\* C2 (as claimed; Spec): populate mode handles a record under either spelling
\* of the name key: no call fails on the spelling, and a call that gets past
\* its setup checks reports one outcome per recorded file entry.
C2_EitherNameKeyAccepted ==
    /\ exc # "KeyError"
    /\ PopulateEnded => Len(Outcomes) = count_files(structure["tree"])

\* C3 (SpecSkeleton): skeleton mode into an empty target after a capture
\* leaves in the target exactly the directories of the captured directory, by
\* relative path, and no file.
C3_SkeletonRoundTrip ==
    (pc = "done" /\ call.op = "skeleton" /\ TargetEmptyBefore)
    => /\ DirsUnder(fs, call.target) = DirsUnder(fs, OrigRoot)
       /\ DirsUnder(fs, call.target) = RecDirs(structure["tree"])
       /\ FilesUnder(fs, call.target) = {}

\* C3 witness: a skeleton run into an empty target has ended and has created
\* a directory inside a directory.
C3_Witness ==
    /\ pc = "done" /\ call.op = "skeleton" /\ TargetEmptyBefore
    /\ \E d \in DirsUnder(fs, call.target) : Len(d) >= 2

\* A skeleton call on the target on which the call before it, a skeleton call
\* too, returned
SecondSkeletonRun ==
    /\ pc # "idle"
    /\ call.op = "skeleton"
    /\ last.op = "skeleton"
    /\ last.outcome = "done"
    /\ last.target = call.target

\* C4 (SpecSkeleton): a second skeleton run with the same record on the same
\* target raises no error and leaves the set of directories of the target as
\* the first run left it.
C4_SkeletonIdempotent ==
    SecondSkeletonRun
    => /\ pc # "raised"
       /\ DirsUnder(fs, call.target) = DirsUnder(pre.fs, call.target)

\* C4 witness: a second skeleton run has returned on a target that holds
\* directories.
C4_Witness ==
    /\ SecondSkeletonRun
    /\ pc = "done"
    /\ DirsUnder(fs, call.target) # {}

\* C5 (as claimed; SpecSkeleton): the count skeleton mode reports is the
\* number of directories of the target that did not exist before the run.
C5_ReportsOnlyCreated ==
    (pc = "done" /\ call.op = "skeleton")
    => log[Len(log)].n =
          Cardinality({p \in DOMAIN fs \ DOMAIN pre.fs :
                          IsUnder(p, call.target) /\ p # call.target})

\* C6 (Spec): with a valid mode and an existing source pool, populate mode
\* with verify-hash on a record whose include_hash is false or missing raises
\* the hash-verification-unavailable error; without verify-hash the record
\* passes the setup checks.
C6_HashVerificationRejected ==
    (/\ call.op = "populate"
     /\ call.mode \in {"copy", "move"}
     /\ exists(pre.fs, call.source))
    => LET hashed == "include_hash" \in DOMAIN structure /\ structure["include_hash"]
       IN /\ (call.verify_hash /\ ~hashed)
                => (pc = "raised" /\ exc = "HashVerificationUnavailable")
          /\ ~call.verify_hash => exc \notin SetupErrors

\* C6 witness: a move of an existing pool with verify-hash was refused on a
\* record that has no include_hash key.
C6_Witness ==
    /\ call.op = "populate" /\ call.mode = "move" /\ call.verify_hash
    /\ exists(pre.fs, call.source)
    /\ "include_hash" \notin DOMAIN structure
    /\ pc = "raised" /\ exc = "HashVerificationUnavailable"

\* C7 (Spec): an invalid mode raises InvalidMode, and a populate call that
\* raised one of the three setup errors has changed neither the file system
\* (the target root is not created) nor any statistics counter.
C7_SetupErrorsDoNoWork ==
    call.op = "populate"
    => /\ call.mode \notin {"copy", "move"} => (pc = "raised" /\ exc = "InvalidMode")
       /\ (pc = "raised" /\ exc \in SetupErrors)
             => /\ fs = pre.fs
                /\ ~exists(fs, call.target)
                /\ stats = pre.stats

\* C7 witness: a call on a pool that does not exist raised SourceNotFound.
C7_Witness ==
    /\ call.op = "populate" /\ pc = "raised" /\ exc = "SourceNotFound"
    /\ ~exists(pre.fs, call.source)
    /\ ~exists(pre.fs, call.target)

\* C8 (Spec): in every step that transfers a file entry for which the pool
\* has several candidates, with verify-hash on, a recorded hash and a
\* candidate of that hash, the source is the first candidate in the order
\* of the pool scan whose hash is the recorded one, and the destination
\* holds the content that candidate had.
C8_FirstHashMatchTransferred ==
    [][ (/\ pc = "walking" /\ call.op = "populate"
         /\ agenda # <<>> /\ Head(agenda).op = "file"
         /\ FilenameKey \in DOMAIN Head(agenda).info
         /\ Head(agenda).info[FilenameKey] \in DOMAIN file_map
         /\ Len(file_map[Head(agenda).info[FilenameKey]]) > 1
         /\ call.verify_hash
         /\ "hash" \in DOMAIN Head(agenda).info
         /\ \E i \in DOMAIN file_map[Head(agenda).info[FilenameKey]] :
               _get_file_hash(fs, file_map[Head(agenda).info[FilenameKey]][i])
                  = Head(agenda).info["hash"]
         /\ Len(log') > Len(log)
         /\ log'[Len(log')].ev \in {"copy", "move"})
        => LET info == Head(agenda).info
               candidates == file_map[info[FilenameKey]]
               matching == {i \in DOMAIN candidates :
                               _get_file_hash(fs, candidates[i]) = info["hash"]}
               first == CHOOSE i \in matching : \A j \in matching : i <= j
               dst == Append(Head(agenda).path, info[FilenameKey])
           IN /\ log'[Len(log')].src = candidates[first]
              /\ is_file(fs', dst)
              /\ fs'[dst].content = fs[candidates[first]].content ]_vars

\* C8 witness: with verify-hash on, a copy took the second of two pool files
\* of one name, whose digests differ, and the destination holds its content.
C8_Witness ==
    /\ call.op = "populate" /\ call.verify_hash
    /\ \E i \in DOMAIN log :
          /\ log[i].ev = "copy"
          /\ Len(file_map[log[i].name]) = 2
          /\ log[i].src = file_map[log[i].name][2]
          /\ _get_file_hash(fs, file_map[log[i].name][1])
                # _get_file_hash(fs, file_map[log[i].name][2])
          /\ fs[log[i].dst].content = fs[log[i].src].content

\* C9 (as claimed; Spec): a populate call that got past its setup checks
\* returns, has created every recorded directory, has transferred every
\* recorded file whose name the pool holds, and has counted one error for each
\* recorded file whose name the pool does not hold.
C9_PartialFailureIsolation ==
    PopulateEnded
    => /\ pc = "done"
       /\ RecDirs(structure["tree"]) \subseteq DirsUnder(fs, call.target)
       /\ \A e \in RecFiles(structure["tree"]) :
             EntryName(e.info) \in DOMAIN file_map
                => is_file(fs, call.target \o e.dir \o <<EntryName(e.info)>>)
       /\ stats["errors"] - pre.stats["errors"] =
             Cardinality({e \in RecFiles(structure["tree"]) :
                             EntryName(e.info) \notin DOMAIN file_map})

\* C10 (as claimed; Spec): in move mode, for a name the record lists at
\* several positions and the pool holds once, the run returns, the first entry
\* of that name is moved and every later one is reported as not found.
C10_MoveReuseNotFound ==
    (PopulateEnded /\ call.mode = "move")
    => \A n \in DOMAIN file_map :
          LET listed == {e \in RecFiles(structure["tree"]) : EntryName(e.info) = n}
              of_n == SelectSeq(Outcomes, LAMBDA m : m.name = n)
          IN (Len(file_map[n]) = 1 /\ Cardinality(listed) > 1)
             => /\ pc = "done"
                /\ Len(of_n) = Cardinality(listed)
                /\ of_n[1].ev = "move"
                /\ \A i \in 2 .. Len(of_n) : of_n[i].ev = "not_found"
                /\ stats["errors"] - pre.stats["errors"] >= Len(of_n) - 1

\* A populate call made after an earlier populate call on the same target
\* that got past its setup checks
SecondPopulateRun ==
    /\ call.op = "populate"
    /\ last.op = "populate"
    /\ last.target = call.target
    /\ last.exc \notin SetupErrors

\* C11 (as claimed; SpecRepeat): after a populate call in move mode that got
\* past its setup checks, no file reported as moved is still at its source
\* path, and a second such call on the same record and pool reports "not
\* found" for every file entry of the record and moves nothing.
C11_MoveDepletesPool ==
    (PopulateEnded /\ call.mode = "move")
    => /\ \A i \in DOMAIN log : log[i].ev = "move" => ~exists(fs, log[i].src)
       /\ SecondPopulateRun
             => /\ pc = "done"
                /\ Len(Outcomes) = count_files(structure["tree"])
                /\ \A i \in DOMAIN Outcomes : Outcomes[i].ev = "not_found"
                /\ stats["files_moved"] = pre.stats["files_moved"]

\* C12 (as claimed; FairSpec): every populate call that got past its setup
\* checks ends, and ends by reporting the aggregate statistics.
C12_EndsWithReport ==
    (pc = "walking" /\ call.op = "populate")
    ~> (pc = "done" /\ log # <<>> /\ log[Len(log)].ev = "summary")

\* The errors scan_directory raises for a root it cannot capture
InvalidPath == {"ValueError: Path does not exist", "ValueError: Path is not a directory"}

\* A capture has returned; the record it wrote
CaptureDone == call.op = "capture" /\ pc = "done"
Captured == fs[call.output].json

\* C13 (SpecCapture): a capture whose root does not exist or is not a
\* directory raises the invalid-path error, writes no output file and changes
\* nothing else.
C13_InvalidRootRejected ==
    (call.op = "capture" /\ ~is_dir(pre.fs, call.root))
    => /\ pc = "raised"
       /\ exc \in InvalidPath
       /\ ~exists(fs, call.output)
       /\ fs = pre.fs

\* C13 witness: the capture of a path that is a file was refused.
C13_Witness ==
    /\ call.op = "capture"
    /\ is_file(pre.fs, call.root)
    /\ pc = "raised" /\ exc = "ValueError: Path is not a directory"

\* C14 (SpecCapture): the record a capture writes carries the flag it was
\* called with, and a file entry of it, at any depth, has a "hash" key if and
\* only if that flag is true.
C14_HashIffFlag ==
    CaptureDone
    => /\ Captured["include_hash"] = call.include_hash
       /\ \A e \in RecFiles(Captured["tree"]) :
             ("hash" \in DOMAIN e.info) <=> Captured["include_hash"]

\* C14 witness: a capture without hashing recorded a file inside a
\* subdirectory.
C14_Witness ==
    /\ CaptureDone
    /\ ~call.include_hash
    /\ \E e \in RecFiles(Captured["tree"]) : Len(e.dir) >= 1

\* Entry p lies below root, and neither p nor a directory between root and p
\* is unreadable
Readable(f, root, p) ==
    /\ IsUnder(p, root) /\ p # root
    /\ \A k \in (Len(root) + 1) .. Len(p) : "fault" \notin DOMAIN f[SubSeq(p, 1, k)]

\* The record tree lists file p / directory p of the directory root
ListsFile(tree, root, p) ==
    \E e \in RecFiles(tree) :
        e.dir = Rel(parent(p), root) /\ e.info["name"] = basename(p)
ListsDir(tree, root, p) == Rel(p, root) \in RecDirs(tree)

\* C15 (SpecCapture): the capture of a readable directory returns whatever
\* entries below it cannot be read; every readable entry is in the record, and
\* a file whose content alone cannot be read is in it too, with hash None when
\* hashes are recorded.
C15_ReadErrorsSkipped ==
    (/\ call.op = "capture"
     /\ is_dir(pre.fs, call.root)
     /\ "fault" \notin DOMAIN pre.fs[call.root])
    => /\ pc = "done"
       /\ \A p \in DOMAIN pre.fs :
             /\ (Readable(pre.fs, call.root, p) /\ is_file(pre.fs, p))
                   => ListsFile(Captured["tree"], call.root, p)
             /\ (Readable(pre.fs, call.root, p) /\ is_dir(pre.fs, p))
                   => ListsDir(Captured["tree"], call.root, p)
             /\ (/\ IsUnder(p, call.root)
                 /\ FaultAt(pre.fs, p, "open") # ""
                 /\ (parent(p) = call.root \/ Readable(pre.fs, call.root, parent(p))))
                   => \E e \in RecFiles(Captured["tree"]) :
                         /\ e.dir = Rel(parent(p), call.root)
                         /\ e.info["name"] = basename(p)
                         /\ call.include_hash => e.info["hash"] = None

\* C15 witness: a capture returned although the metadata of an entry could
\* not be read for an OSError, and recorded a readable entry next to it.
C15_Witness ==
    /\ CaptureDone
    /\ \E p, q \in DOMAIN pre.fs :
          /\ IsUnder(p, call.root)
          /\ FaultAt(pre.fs, p, "stat") = "OSError"
          /\ parent(q) = parent(p)
          /\ Readable(pre.fs, call.root, q)
          /\ (ListsFile(Captured["tree"], call.root, q)
              \/ ListsDir(Captured["tree"], call.root, q))

\* C16 (SpecCapture): the counts a capture reports are the number of file
\* entries and the number of directory nodes below the root node of the
\* record it wrote.
C16_ReportedCounts ==
    CaptureDone
    => /\ log[Len(log)].ev = "captured"
       /\ log[Len(log)].files = Cardinality(RecFiles(Captured["tree"]))
       /\ log[Len(log)].dirs = Cardinality(RecDirs(Captured["tree"]))

\* C16 witness: a capture reported a directory inside a directory and a file.
C16_Witness ==
    /\ CaptureDone
    /\ log[Len(log)].files >= 1
    /\ \E d \in RecDirs(Captured["tree"]) : Len(d) >= 2

\* The file entry without the two attributes the merge adds
WithoutUrl(info) == [k \in DOMAIN info \ {"url", "openAccess"} |-> info[k]]

\* Tree after differs from tree before only by url and openAccess on the file
\* entries whose name the CSV mapping holds
RECURSIVE OnlyAttributesAdded(_, _, _)
OnlyAttributesAdded(before, after, csv) ==
    /\ DOMAIN after.files = DOMAIN before.files
    /\ \A i \in DOMAIN before.files :
          /\ WithoutUrl(after.files[i]) = WithoutUrl(before.files[i])
          /\ IF EntryName(before.files[i]) \in DOMAIN csv
             THEN DOMAIN after.files[i] = DOMAIN before.files[i] \cup {"url", "openAccess"}
             ELSE after.files[i] = before.files[i]
    /\ DOMAIN after.directories = DOMAIN before.directories
    /\ \A i \in DOMAIN before.directories :
          /\ after.directories[i][1] = before.directories[i][1]
          /\ OnlyAttributesAdded(before.directories[i][2], after.directories[i][2], csv)

\* C17 (as claimed; SpecMerge): the merge of a record of either spelling,
\* enhanced before or not, writes a record that differs from the one it read
\* only by url and openAccess on the file entries whose name the CSV holds.
C17_MergeOnlyAddsAttributes ==
    (call.op = "merge" /\ pc \in {"done", "raised"})
    => /\ pc = "done"
       /\ LET before == pre.fs[call.json_file].json
              after == fs[call.output].json
          IN /\ DOMAIN after = DOMAIN before
             /\ \A k \in DOMAIN before \ {"tree"} : after[k] = before[k]
             /\ OnlyAttributesAdded(before["tree"], after["tree"], call.csv)

\* The messages of the log that report the visit of one file entry, and those
\* that report an attempt to obtain it
Visits ==
    SelectSeq(log, LAMBDA m : m.ev \in {"no_name", "no_url", "exists", "failed", "downloaded"})
Attempts == SelectSeq(log, LAMBDA m : m.ev \in {"exists", "failed", "downloaded"})

\* C18 (as claimed; SpecDownload): a download without folder structure that
\* has returned visited as many file entries as it announced, attempted every
\* file entry of the record that has a URL, at any depth, wrote only directly
\* into the output directory and created no directory in it.
C18_NoStructureVisitsAll ==
    (call.op = "download" /\ ~call.create_structure /\ pc = "done")
    => /\ Len(Visits) = log[1].n
       /\ Len(Attempts) =
             Cardinality({e \in RecFiles(structure["tree"]) : "url" \in DOMAIN e.info})
       /\ \A i \in DOMAIN log :
             log[i].ev = "downloaded" => parent(log[i].dst) = call.target
       /\ DirsUnder(fs, call.target) = DirsUnder(pre.fs, call.target)

\* C19 (as claimed; SpecExisting): a populate call that got past its setup
\* checks returns normally with every entry of the record handled, whatever
\* file could not be transferred and whatever recorded directory could not be
\* created.
C19_EntryFailuresIsolated ==
    PopulateEnded
    => /\ pc = "done"
       /\ agenda = <<>>
       /\ log[Len(log)].ev = "summary"

\* C20 (as claimed; FairSpec): a populate call that got past its setup checks
\* comes to its end having reported one outcome for every file entry of the
\* record, no more and no fewer for any name, and having made one
\* create-if-absent call for every recorded directory.
C20_EachEntryOnce ==
    (pc = "walking" /\ call.op = "populate")
    ~> (/\ pc = "done"
        /\ \A n \in Names :
              Len(SelectSeq(Outcomes, LAMBDA m : m.name = n)) =
                 Cardinality({e \in RecFiles(structure["tree"]) : EntryName(e.info) = n})
        /\ stats["dirs_created"] - pre.stats["dirs_created"] =
              Cardinality(RecDirs(structure["tree"])))

\* The walk is about to handle a file entry whose name it can read
FileStep ==
    /\ pc = "walking" /\ call.op = "populate"
    /\ agenda # <<>> /\ Head(agenda).op = "file"
    /\ FilenameKey \in DOMAIN Head(agenda).info

\* The pool files of the name of that entry, in the order of the pool scan
StepCandidates ==
    IF Head(agenda).info[FilenameKey] \in DOMAIN file_map
    THEN file_map[Head(agenda).info[FilenameKey]]
    ELSE <<>>

\* C21 (Spec): in every step on a file entry whose name exactly one pool file
\* has, that file is the source selected, whatever verify-hash and the
\* recorded hash are, no candidate is hashed, and if the file is still there
\* it is transferred: the destination holds its content.
C21_UniqueNameTrusted ==
    [][ (FileStep /\ Len(StepCandidates) = 1)
        => LET only == StepCandidates[1]
               m == log'[Len(log')]
               dst == Append(Head(agenda).path, Head(agenda).info[FilenameKey])
           IN /\ m.ev \in {"copy", "move", "error"}
              /\ m.src = only
              /\ m.hashed = <<>>
              /\ exists(fs, only)
                    => /\ m.ev = call.mode
                       /\ is_file(fs', dst)
                       /\ fs'[dst].content = fs[only].content ]_vars

\* C21 witness: with verify-hash on, the only pool file of a name was copied
\* although its digest is not the hash the record gives for that name.
C21_Witness ==
    /\ call.op = "populate" /\ call.verify_hash
    /\ \E i \in DOMAIN log :
          /\ log[i].ev = "copy"
          /\ Len(file_map[log[i].name]) = 1
          /\ log[i].hashed = <<>>
          /\ is_file(fs, log[i].dst)
          /\ \E e \in RecFiles(structure["tree"]) : EntryName(e.info) = log[i].name
          /\ \A e \in RecFiles(structure["tree"]) :
                EntryName(e.info) = log[i].name
                   => e.info["hash"] # _get_file_hash(fs, log[i].src)

C23_IndexBuiltOnce ==
    /\ [][pc = "walking" => file_map' = file_map]_vars
    /\ []((pc = "walking" /\ call.op = "populate")
          => \E ord \in Orders : file_map = _build_file_map(pre.fs, call.source, ord))
    /\ []((pc = "done" /\ call.op = "populate" /\ call.mode = "copy")
          => \A e \in RecFiles(structure["tree"]) :
                EntryName(e.info) \in DOMAIN file_map
                   => LET dst == call.target \o e.dir \o <<EntryName(e.info)>>
                          candidates == file_map[EntryName(e.info)]
                      IN /\ is_file(fs, dst)
                         /\ \E i \in DOMAIN candidates :
                               /\ is_file(fs, candidates[i])
                               /\ fs[dst].content = fs[candidates[i]].content)

\* C23 witness: a copy run is done in which the only pool file of a name
\* served two entries of that name at different positions of the tree.
C23_Witness ==
    /\ pc = "done" /\ call.op = "populate" /\ call.mode = "copy"
    /\ \E e1, e2 \in RecFiles(structure["tree"]) :
          /\ e1.dir # e2.dir
          /\ EntryName(e1.info) = EntryName(e2.info)
          /\ EntryName(e1.info) \in DOMAIN file_map
          /\ Len(file_map[EntryName(e1.info)]) = 1
          /\ is_file(fs, call.target \o e1.dir \o <<EntryName(e1.info)>>)
          /\ is_file(fs, call.target \o e2.dir \o <<EntryName(e2.info)>>)
          /\ stats["files_copied"] = 2

\* C24 (SpecUnreadable): a step on a file entry whose transfer raises adds one
\* to errors, leaves files_copied, files_moved and dirs_created as they were
\* and leaves the walk at its next entry; no run ends with the exception of a
\* transfer, and a run that is done has reported an outcome for every file
\* entry and made every recorded directory.
C24_TransferErrorIsolated ==
    /\ [][ (FileStep /\ log'[Len(log')].ev = "error")
           => /\ stats' = [stats EXCEPT !.errors = @ + 1]
              /\ pc' = "walking" /\ exc' = ""
              /\ agenda' = Tail(agenda) ]_vars
    /\ []((call.op = "populate" /\ pc = "raised")
          => /\ exc \in SetupErrors \cup {"KeyError"}
             /\ \A i \in DOMAIN log : log[i].ev # "error")
    /\ []((call.op = "populate" /\ pc = "done")
          => /\ Len(Outcomes) = Cardinality(RecFiles(structure["tree"]))
             /\ RecDirs(structure["tree"]) \subseteq DirsUnder(fs, call.target))

\* C24 witness: a copy run is done in which the copy of an unreadable pool
\* file failed, one error and no copy were counted for it, and the next file
\* entry was copied.
C24_Witness ==
    /\ pc = "done" /\ call.op = "populate" /\ call.mode = "copy"
    /\ stats["errors"] = 1 /\ stats["files_copied"] = 1 /\ stats["files_moved"] = 0
    /\ \E i, j \in DOMAIN log :
          /\ i < j
          /\ log[i].ev = "error"
          /\ FaultAt(fs, log[i].src, "open") = "PermissionError"
          /\ ~exists(fs, log[i].dst)
          /\ log[j].ev = "copy"
          /\ is_file(fs, log[j].dst)

\* C25 (as claimed; SpecSpecial): every file entry and every directory of a
\* captured record is a plain file, or a plain directory, of the captured
\* directory: nothing is recorded for a symbolic link, a device or a socket,
\* and nothing below one.
C25_OnlyPlainEntries ==
    CaptureDone
    => /\ \A e \in RecFiles(Captured["tree"]) :
             LET p == call.root \o e.dir \o <<e.info["name"]>>
             IN p \in DOMAIN pre.fs /\ pre.fs[p].kind = "file"
       /\ \A d \in RecDirs(Captured["tree"]) :
             LET p == call.root \o d
             IN p \in DOMAIN pre.fs /\ pre.fs[p].kind = "dir"

\* What does hold (SpecSpecial): a device, a socket and a symbolic link to
\* nothing are not recorded; a symbolic link to a file is recorded as a file
\* with the size of its target, and a symbolic link to a directory as a
\* directory holding the entries of its target.
C25_LinksFollowed ==
    CaptureDone
    => \A p \in DOMAIN pre.fs :
          (IsUnder(p, call.root) /\ pre.fs[p].kind \notin {"file", "dir"})
             => /\ ListsFile(Captured["tree"], call.root, p) <=> is_file(pre.fs, p)
                /\ ListsDir(Captured["tree"], call.root, p) <=> is_dir(pre.fs, p)
                /\ is_file(pre.fs, p)
                      => \E e \in RecFiles(Captured["tree"]) :
                            /\ e.dir = Rel(parent(p), call.root)
                            /\ e.info["name"] = basename(p)
                            /\ e.info["size"] = st_size(pre.fs[pre.fs[p].to].content)
                /\ is_dir(pre.fs, p)
                      => \E e \in RecFiles(Captured["tree"]) :
                            e.dir = Rel(p, call.root)

\* C25 witness: a capture is done that recorded a symbolic link to a
\* directory as a directory, with the file of the link's target below it.
C25_Witness ==
    /\ CaptureDone
    /\ \E p \in DOMAIN pre.fs :
          /\ pre.fs[p].kind = "link"
          /\ pre.fs[p].to = ExtRoot
          /\ ListsDir(Captured["tree"], call.root, p)
          /\ \E e \in RecFiles(Captured["tree"]) : e.dir = Rel(p, call.root)

\* C26 (as claimed; SpecSkeleton): the count a skeleton run reports is the
\* count of that run alone, one for each directory entry its walk went
\* through, whether the run is the first of its reconstructor object or not.
C26_RunOwnsStats ==
    (pc = "done" /\ call.op = "skeleton")
    => log[Len(log)].n = count_directories(structure["tree"])

\* What does hold (SpecSkeleton): the count reported is that of the run added
\* to what the object had counted before the run; it is the run's own count
\* when the object is new.
C26_StatsAccumulate ==
    (pc = "done" /\ call.op = "skeleton")
    => log[Len(log)].n
          = pre.stats["dirs_created"] + count_directories(structure["tree"])

\* C26 witness: a second skeleton run through the same object is done and
\* reports the directories of both runs.
C26_Witness ==
    /\ pc = "done" /\ call.op = "skeleton"
    /\ runs = 2
    /\ pre.stats["dirs_created"] > 0
    /\ log[Len(log)].n = 2 * count_directories(structure["tree"])

\* The file entries the walk of the current populate call has still to handle
FilesLeft == Len(SelectSeq(agenda, LAMBDA a : a.op = "file"))

\* C27 (Spec): at every point of a populate run on a new reconstructor that
\* is past its setup checks, files_copied + files_moved + errors is the number
\* of file entries handled so far, and is the number of file entries of the
\* record when the run is done; copy mode never counts a move nor move mode a
\* copy.
C27_OneCounterPerEntry ==
    (call.op = "populate" /\ pc \in {"walking", "done"})
    => /\ stats["files_copied"] + stats["files_moved"] + stats["errors"]
             = count_files(structure["tree"]) - FilesLeft
       /\ stats["files_copied"] + stats["files_moved"] + stats["errors"]
             = Len(Outcomes)
       /\ pc = "done" => FilesLeft = 0
       /\ call.mode = "copy" => stats["files_moved"] = 0
       /\ call.mode = "move" => stats["files_copied"] = 0

\* C27 witness: a move run is done in which one of the two file entries of
\* the record was moved and the transfer of the other failed.
C27_Witness ==
    /\ call.op = "populate" /\ pc = "done" /\ call.mode = "move"
    /\ stats["files_moved"] = 1 /\ stats["errors"] = 1 /\ stats["files_copied"] = 0
    /\ count_files(structure["tree"]) = 2
    /\ \E i, j \in DOMAIN log : log[i].ev = "move" /\ log[j].ev = "error"

\* The number of file entries of the record named n, and of pool files named n
\* before the call
EntriesNamed(n) ==
    Cardinality({e \in RecFiles(structure["tree"]) : EntryName(e.info) = n})
PoolFilesNamed(n) ==
    Cardinality({p \in DOMAIN pre.fs :
                    IsUnder(p, call.source) /\ is_file(pre.fs, p) /\ basename(p) = n})

\* C28 (as claimed; SpecSameName): in a move run without hash verification
\* that is done, no entry is reported failed or not found for a name of which
\* the pool held as many files as the record has entries.
C28_EnoughFilesAllMoved ==
    (call.op = "populate" /\ pc = "done" /\ call.mode = "move" /\ ~call.verify_hash)
    => \A i \in DOMAIN log :
          log[i].ev \in {"error", "not_found"}
             => PoolFilesNamed(log[i].name) < EntriesNamed(log[i].name)

\* C28 witness: a move run without hash verification is done that failed an
\* entry while a pool file of its name, never moved, is still in the pool.
C28_Witness ==
    /\ call.op = "populate" /\ pc = "done" /\ call.mode = "move" /\ ~call.verify_hash
    /\ \E i \in DOMAIN log :
          /\ log[i].ev = "error"
          /\ PoolFilesNamed(log[i].name) = 2 /\ EntriesNamed(log[i].name) = 2
          /\ \E p \in DOMAIN fs :
                /\ IsUnder(p, call.source) /\ is_file(fs, p)
                /\ basename(p) = log[i].name

\* C29 (as claimed; SpecUnreadable): in every step on a file entry whose name
\* several pool files have, a candidate selected without the "multiple
\* matches" warning, that is by the comparison of hashes, has a digest that
\* could be computed, and the recorded hash is that digest and is not None.
C29_NoMatchOnNone ==
    [][ (FileStep /\ Len(StepCandidates) > 1 /\ Len(log') = Len(log) + 1)
        => LET m == log'[Len(log')]
           IN /\ _get_file_hash(fs, m.src) # None
              /\ Head(agenda).info["hash"] # None
              /\ Head(agenda).info["hash"] = _get_file_hash(fs, m.src) ]_vars

\* What does hold (SpecUnreadable): the candidate selected by the comparison
\* is the first whose _get_file_hash equals the recorded hash, None included.
C29_FirstEqualHash ==
    [][ (FileStep /\ Len(StepCandidates) > 1 /\ Len(log') = Len(log) + 1)
        => LET m == log'[Len(log')]
           IN /\ call.verify_hash
              /\ Head(agenda).info["hash"] = _get_file_hash(fs, m.src)
              /\ m.hashed # <<>> /\ m.hashed[Len(m.hashed)] = m.src
              /\ \A i \in 1 .. (Len(m.hashed) - 1) :
                    _get_file_hash(fs, m.hashed[i]) # Head(agenda).info["hash"] ]_vars

\* C29 witness: with verify-hash on and a recorded hash of None, the second
\* of two pool files of the name, the one that cannot be read, was selected
\* without a warning after the first, readable one was passed over, and its
\* copy failed.
C29_Witness ==
    /\ call.op = "populate" /\ call.verify_hash /\ call.mode = "copy"
    /\ \A i \in DOMAIN log : log[i].ev # "multiple_matches"
    /\ \E i \in DOMAIN log :
          /\ log[i].ev = "error"
          /\ Len(file_map[log[i].name]) = 2
          /\ log[i].src = file_map[log[i].name][2]
          /\ Len(log[i].hashed) = 2
          /\ FaultAt(fs, log[i].src, "open") = "PermissionError"
          /\ _get_file_hash(fs, file_map[log[i].name][1]) # None
          /\ \E e \in RecFiles(structure["tree"]) :
                EntryName(e.info) = log[i].name /\ e.info["hash"] = None

\* The relative paths at which the record lists a file
RecFilePaths(tree) == {e.dir \o <<EntryName(e.info)>> : e \in RecFiles(tree)}

\* C30 (Spec): during and after a populate run into a target that held
\* nothing, every file under the target is at a path the record lists for a
\* file and every directory under it is a directory of the record.
C30_NothingOutsideRecord ==
    (call.op = "populate" /\ TargetEmptyBefore)
    => /\ FilesUnder(fs, call.target) \subseteq RecFilePaths(structure["tree"])
       /\ DirsUnder(fs, call.target) \subseteq RecDirs(structure["tree"])

\* C30 witness: a copy run is done that placed a file found in a
\* subdirectory of the pool at the top of the target, where the record lists
\* it, and made no directory for the pool's subdirectory.
C30_Witness ==
    /\ call.op = "populate" /\ pc = "done" /\ call.mode = "copy"
    /\ TargetEmptyBefore
    /\ \E i \in DOMAIN log :
          /\ log[i].ev = "copy"
          /\ Len(Rel(log[i].src, call.source)) = 2
          /\ Rel(log[i].dst, call.target) = <<log[i].name>>
          /\ is_file(fs, log[i].dst)
          /\ DirsUnder(fs, call.target) = {}
====
